---- MODULE Spec2Model ----
(***************************************************************************)
(* A model of the libevent echo server of src/src/main.c.                  *)
(*                                                                         *)
(* main() builds an event_base, a listener on PORT and a SIGINT event and  *)
(* runs event_base_dispatch.  listener_cb wraps every accepted socket in a *)
(* bufferevent; conn_readcb moves the input evbuffer to the output         *)
(* evbuffer; conn_writecb only reports; conn_eventcb frees the             *)
(* bufferevent; signal_cb asks for a loop exit after two seconds.          *)
(*                                                                         *)
(* The loop is single-threaded: the transport step that makes a callback   *)
(* due records it in `pending`, and nothing else runs until that callback  *)
(* has returned.                                                           *)
(***************************************************************************)
EXTENDS Integers, Sequences, FiniteSets, TLC

\* ---------------------------------------------------------------- bounds
\* sockets the clients open during one run
MaxConns == 2
\* bytes the clients send during one run, all connections together
MaxSend == 2\* bytes an evbuffer holds when a callback is tried on its own
MaxLen == 2

\* bits of a size_t in the step-by-step read loop (64 on the build's
\* platform, which the checker's integers cannot hold)
SizeBits == 8

\* ------------------------------------------------------ program constants
\* struct timeval delay = { 2, 0 }
GRACE == 2

Conns == 1..MaxConns

\* event bits of <event2/bufferevent.h> handed to conn_eventcb
BEV_EVENT_READING == "READING"
BEV_EVENT_WRITING == "WRITING"
BEV_EVENT_EOF == "EOF"
BEV_EVENT_ERROR == "ERROR"
BEV_EVENT_TIMEOUT == "TIMEOUT"
BEV_EVENT_CONNECTED == "CONNECTED"

\* the masks the socket bufferevent delivers when no timeout is armed and
\* the socket was accepted, not connected
DeliveredMasks ==
    { {BEV_EVENT_READING, BEV_EVENT_EOF},
      {BEV_EVENT_READING, BEV_EVENT_ERROR},
      {BEV_EVENT_WRITING, BEV_EVENT_ERROR} }

\* the k-th byte client c sends: all bytes of a run are distinct, so a byte
\* that is dropped, duplicated, reordered or echoed on another connection
\* shows in the buffers
Byte(c, k) == 10 * c + k

NoCallback == [kind |-> "none", c |-> 0, events |-> {}]

VARIABLES
    pc,         \* where main() is
    status,     \* the exit status of the process, -1 while it runs
    doneCount,  \* how many times "done" was printed
    base,       \* event_base: "unset", "null", "live", "freed"
    listener,   \* evconnlistener: "unset", "null", "live", "freed"
    sigev,      \* signal event: "unset", "null", "notadded", "live", "freed"
    loop,       \* event_base_dispatch: "notrun", "running", "exited"
    exitCause,  \* why the loop exited: "none", "loopexit", "loopbreak"
    timers,     \* the remaining delays of the pending loopexit timers
    elapsed,    \* time passed since the first SIGINT, -1 before it
    nconn,      \* sockets accepted so far
    st,         \* per socket: "NONE", "ACTIVE", "CLOSED"
    inbuf,      \* per connection: the input evbuffer
    outbuf,     \* per connection: the output evbuffer
    fdOpen,     \* per socket: the descriptor is open in the server
    fd,         \* per socket: its descriptor number while open, else 0
    freed,      \* per connection: calls of bufferevent_free
    sockin,     \* per socket: bytes the client sent, not yet read
    clientEnd,  \* per socket: "open", "eof" (half-closed), "reset"
    rcvd,       \* per connection: bytes read from the socket so far
    delivered,  \* per connection: bytes written back to the socket so far
    pending,    \* the callback the loop is about to run
    said,       \* the lines the last step printed
    last        \* the handler or step that ran last

connVars == <<nconn, st, inbuf, outbuf, fdOpen, fd, freed, sockin, clientEnd,
              rcvd, delivered>>
mainVars == <<pc, status, doneCount, base, listener, sigev>>
loopVars == <<loop, exitCause, timers, elapsed>>
vars == <<pc, status, doneCount, base, listener, sigev, loop, exitCause,
          timers, elapsed, nconn, st, inbuf, outbuf, fdOpen, fd,
          freed, sockin, clientEnd, rcvd, delivered, pending, said, last>>

Init ==
    /\ pc = "base_new"
    /\ status = -1
    /\ doneCount = 0
    /\ base = "unset"
    /\ listener = "unset"
    /\ sigev = "unset"
    /\ loop = "notrun"
    /\ exitCause = "none"
    /\ timers = {}
    /\ elapsed = -1
    /\ nconn = 0
    /\ st = [c \in Conns |-> "NONE"]
    /\ inbuf = [c \in Conns |-> <<>>]
    /\ outbuf = [c \in Conns |-> <<>>]
    /\ fdOpen = [c \in Conns |-> FALSE]
    /\ fd = [c \in Conns |-> 0]
    /\ freed = [c \in Conns |-> 0]
    /\ sockin = [c \in Conns |-> <<>>]
    /\ clientEnd = [c \in Conns |-> "open"]
    /\ rcvd = [c \in Conns |-> <<>>]
    /\ delivered = [c \in Conns |-> <<>>]
    /\ pending = NoCallback
    /\ said = {}
    /\ last = "start"

\* ------------------------------------------------------------------ main

\* struct event_base *base = event_base_new(); if (!base) return 1;
EventBaseNew(ok) ==
    /\ pc = "base_new"
    /\ base' = IF ok THEN "live" ELSE "null"
    /\ pc' = IF ok THEN "listener_new" ELSE "exit"
    /\ status' = IF ok THEN status ELSE 1
    /\ said' = IF ok THEN {} ELSE {"Could not initialize libevent!"}
    /\ last' = "EventBaseNew"
    /\ UNCHANGED <<doneCount, listener, sigev, loopVars, connVars, pending>>

\* ListenerNewBind without the return of the failure branch: it reports the
\* failure and goes on to the signal event
ListenerNewBind_noreturn(ok) ==
    /\ pc = "listener_new"
    /\ listener' = IF ok THEN "live" ELSE "null"
    /\ pc' = "signal_new"
    /\ said' = IF ok THEN {} ELSE {"Could not create a listener!"}
    /\ last' = "ListenerNewBind"
    /\ UNCHANGED <<status, doneCount, base, sigev, loopVars, connVars,
                   pending>>

\* listener = evconnlistener_new_bind(...); if (!listener) return 1;
ListenerNewBind(ok) ==
    /\ pc = "listener_new"
    /\ listener' = IF ok THEN "live" ELSE "null"
    /\ pc' = IF ok THEN "signal_new" ELSE "exit"
    /\ status' = IF ok THEN status ELSE 1
    /\ said' = IF ok THEN {} ELSE {"Could not create a listener!"}
    /\ last' = "ListenerNewBind"
    /\ UNCHANGED <<doneCount, base, sigev, loopVars, connVars, pending>>

\* signal_event = evsignal_new(...);
\* if (!signal_event || event_add(signal_event, NULL) < 0) return 1;
\* outcome: "live" (created and added), "null" (evsignal_new failed),
\* "notadded" (event_add failed)
SignalNew(outcome) ==
    /\ pc = "signal_new"
    /\ sigev' = outcome
    /\ pc' = IF outcome = "live" THEN "dispatch" ELSE "exit"
    /\ status' = IF outcome = "live" THEN status ELSE 1
    /\ said' = IF outcome = "live" THEN {}
               ELSE {"Could not create/add a signal event!"}
    /\ last' = "SignalNew"
    /\ UNCHANGED <<doneCount, base, listener, loopVars, connVars, pending>>

\* printf("Start listening ..."); event_base_dispatch(base);  (entry)
DispatchEnter ==
    /\ pc = "dispatch"
    /\ loop = "notrun"
    /\ loop' = "running"
    /\ said' = {"Start listening the port"}
    /\ last' = "DispatchEnter"
    /\ UNCHANGED <<mainVars, exitCause, timers, elapsed, connVars,
                   pending>>

\* an event_base_dispatch that also returns when no connection is open
DispatchReturn_empty ==
    /\ pc = "dispatch"
    /\ loop = "running"
    /\ exitCause # "none" \/ \A c \in Conns : st[c] # "ACTIVE"
    /\ pending.kind = "none"
    /\ loop' = "exited"
    /\ pc' = "free_listener"
    /\ said' = {}
    /\ last' = "DispatchReturn"
    /\ UNCHANGED <<status, doneCount, base, listener, sigev, exitCause,
                   timers, elapsed, connVars, pending>>

\* event_base_dispatch(base) returns: a loopexit timer has fired or
\* event_base_loopbreak was called
DispatchReturn ==
    /\ pc = "dispatch"
    /\ loop = "running"
    /\ exitCause # "none"
    /\ pending.kind = "none"
    /\ loop' = "exited"
    /\ pc' = "free_listener"
    /\ said' = {}
    /\ last' = "DispatchReturn"
    /\ UNCHANGED <<status, doneCount, base, listener, sigev, exitCause,
                   timers, elapsed, connVars, pending>>

\* main without its evconnlistener_free(listener)
EvconnlistenerFree_skip ==
    /\ pc = "free_listener"
    /\ pc' = "free_signal"
    /\ said' = {}
    /\ last' = "EvconnlistenerFree"
    /\ UNCHANGED <<status, doneCount, base, listener, sigev, loopVars,
                   connVars, pending>>

\* evconnlistener_free(listener);
EvconnlistenerFree ==
    /\ pc = "free_listener"
    /\ listener' = "freed"
    /\ pc' = "free_signal"
    /\ said' = {}
    /\ last' = "EvconnlistenerFree"
    /\ UNCHANGED <<status, doneCount, base, sigev, loopVars, connVars,
                   pending>>

\* event_free(signal_event);
EventFree ==
    /\ pc = "free_signal"
    /\ sigev' = "freed"
    /\ pc' = "free_base"
    /\ said' = {}
    /\ last' = "EventFree"
    /\ UNCHANGED <<status, doneCount, base, listener, loopVars, connVars,
                   pending>>

\* event_base_free(base): the pending loopexit timers go with the base;
\* bufferevents are not owned by the base and are left as they are
EventBaseFree ==
    /\ pc = "free_base"
    /\ base' = "freed"
    /\ timers' = {}
    /\ pc' = "print_done"
    /\ said' = {}
    /\ last' = "EventBaseFree"
    /\ UNCHANGED <<status, doneCount, listener, sigev, loop, exitCause,
                   elapsed, connVars, pending>>

\* printf("done\n"); return 0;
PrintDone ==
    /\ pc = "print_done"
    /\ doneCount' = doneCount + 1
    /\ status' = 0
    /\ pc' = "exit"
    /\ said' = {"done"}
    /\ last' = "PrintDone"
    /\ UNCHANGED <<base, listener, sigev, loopVars, connVars, pending>>

\* -------------------------------------------------------------- the loop

\* the loop is inside event_base_dispatch, no exit is requested and no
\* callback is due: it picks the next event
Idle ==
    /\ pc = "dispatch"
    /\ loop = "running"
    /\ exitCause = "none"
    /\ pending.kind = "none"

\* ----------------------------------------------------- the evbuffer moves

\* evbuffer_remove_buffer(src, dst, datlen): moves the first datlen bytes of
\* src to the end of dst and returns how many it moved; with datlen at least
\* the length of src it moves all of src
evbuffer_remove_buffer(src, dst, datlen) ==
    LET n == IF datlen >= Len(src) THEN Len(src) ELSE datlen
    IN  [src |-> SubSeq(src, n + 1, Len(src)),
         dst |-> dst \o SubSeq(src, 1, n),
         ret |-> n]

\* a read loop that copies the input evbuffer to the output evbuffer and
\* leaves the input evbuffer as it was
ReadLoop_copy(evbuf_in, evbuf_out) ==
    [in |-> evbuf_in, out |-> evbuf_out \o evbuf_in]

\* a read loop that puts the input in front of what the output evbuffer
\* holds
ReadLoop_prepend(evbuf_in, evbuf_out) ==
    [in |-> <<>>, out |-> evbuf_in \o evbuf_out]

\* a read loop that goes through a byte array and adds at least one byte of
\* it to the output evbuffer
ReadLoop_pad(evbuf_in, evbuf_out) ==
    [in |-> <<>>,
     out |-> evbuf_out \o (IF evbuf_in = <<>> THEN <<0>> ELSE evbuf_in)]

\* the loop of conn_readcb:
\*   while (1) { inputs = evbuffer_get_length(in);
\*               writes = evbuffer_remove_buffer(in, out, inputs);
\*               if (inputs <= writes) break; }
RECURSIVE ReadLoop(_, _)
ReadLoop(evbuf_in, evbuf_out) ==
    LET inputs == Len(evbuf_in)
        r == evbuffer_remove_buffer(evbuf_in, evbuf_out, inputs)
        writes == r.ret
    IN  IF inputs <= writes
        THEN [in |-> r.src, out |-> r.dst]
        ELSE ReadLoop(r.src, r.dst)

\* the lines conn_eventcb prints for a mask
EventLines(events) ==
    { e \in {BEV_EVENT_READING, BEV_EVENT_WRITING, BEV_EVENT_EOF,
             BEV_EVENT_ERROR, BEV_EVENT_TIMEOUT, BEV_EVENT_CONNECTED} :
        e \in events }

\* bufferevent_free(bev) on a bufferevent made with BEV_OPT_CLOSE_ON_FREE:
\* its events leave the loop, both evbuffers are freed with what they hold,
\* the socket is closed
bufferevent_free(c) ==
    /\ st' = [st EXCEPT ![c] = "CLOSED"]
    /\ inbuf' = [inbuf EXCEPT ![c] = <<>>]
    /\ outbuf' = [outbuf EXCEPT ![c] = <<>>]
    /\ fdOpen' = [fdOpen EXCEPT ![c] = FALSE]
    /\ fd' = [fd EXCEPT ![c] = 0]
    /\ freed' = [freed EXCEPT ![c] = @ + 1]

\* ------------------------------------------------------------- callbacks

\* the descriptor number accept() gives the next socket: the lowest number
\* no open socket of the server has
LowestFreeFd ==
    LET used == { fd[d] : d \in { x \in Conns : fdOpen[x] } }
    IN  CHOOSE n \in 1..MaxConns :
            n \notin used /\ \A m \in 1..(n - 1) : m \in used

\* a listener_cb that reports a failed bufferevent_socket_new and returns
\* without event_base_loopbreak
listener_cb_skip(ok) ==
    /\ Idle
    /\ listener = "live"
    /\ nconn < MaxConns
    /\ LET c == nconn + 1 IN
        /\ nconn' = c
        /\ fdOpen' = [fdOpen EXCEPT ![c] = TRUE]
        /\ fd' = [fd EXCEPT ![c] = LowestFreeFd]
        /\ IF ok
           THEN /\ st' = [st EXCEPT ![c] = "ACTIVE"]
                /\ said' = {}
           ELSE /\ said' = {"Error constructing bufferevent!"}
                /\ UNCHANGED st
    /\ last' = "listener_cb"
    /\ UNCHANGED <<mainVars, loopVars, inbuf, outbuf, freed, sockin,
                   clientEnd, rcvd, delivered, pending>>

\* a listener_cb that keeps its bufferevent in one static pointer and frees
\* the one it held before
listener_cb_single(ok) ==
    /\ Idle
    /\ listener = "live"
    /\ nconn < MaxConns
    /\ LET c == nconn + 1
           old == { d \in Conns : st[d] = "ACTIVE" }
       IN
        /\ nconn' = c
        /\ fdOpen' = [d \in Conns |->
                        IF d = c THEN TRUE
                        ELSE IF ok /\ d \in old THEN FALSE ELSE fdOpen[d]]
        /\ fd' = [d \in Conns |->
                    IF d = c THEN LowestFreeFd
                    ELSE IF ok /\ d \in old THEN 0 ELSE fd[d]]
        /\ IF ok
           THEN /\ st' = [d \in Conns |->
                            IF d = c THEN "ACTIVE"
                            ELSE IF d \in old THEN "CLOSED" ELSE st[d]]
                /\ inbuf' = [d \in Conns |->
                               IF d \in old THEN <<>> ELSE inbuf[d]]
                /\ outbuf' = [d \in Conns |->
                                IF d \in old THEN <<>> ELSE outbuf[d]]
                /\ freed' = [d \in Conns |->
                               IF d \in old THEN freed[d] + 1 ELSE freed[d]]
                /\ exitCause' = exitCause
                /\ said' = {}
           ELSE /\ exitCause' = "loopbreak"
                /\ said' = {"Error constructing bufferevent!"}
                /\ UNCHANGED <<st, inbuf, outbuf, freed>>
    /\ last' = "listener_cb"
    /\ UNCHANGED <<mainVars, loop, timers, elapsed, sockin, clientEnd, rcvd,
                   delivered, pending>>

\* listener_cb for the next accepted socket; ok is whether
\* bufferevent_socket_new returned a bufferevent
listener_cb(ok) ==
    /\ Idle
    /\ listener = "live"
    /\ nconn < MaxConns
    /\ LET c == nconn + 1 IN
        /\ nconn' = c
        /\ fdOpen' = [fdOpen EXCEPT ![c] = TRUE]
        /\ fd' = [fd EXCEPT ![c] = LowestFreeFd]
        /\ IF ok
           THEN /\ st' = [st EXCEPT ![c] = "ACTIVE"]
                /\ exitCause' = exitCause
                /\ said' = {}
           ELSE /\ exitCause' = "loopbreak"
                /\ said' = {"Error constructing bufferevent!"}
                /\ UNCHANGED st
    /\ last' = "listener_cb"
    /\ UNCHANGED <<mainVars, loop, timers, elapsed, inbuf, outbuf,
                   freed, sockin, clientEnd, rcvd, delivered, pending>>

\* a conn_writecb that reports without looking at the output evbuffer
conn_writecb_always(c) ==
    /\ pending = [kind |-> "write", c |-> c, events |-> {}]
    /\ pending' = NoCallback
    /\ said' = {"Answered"}
    /\ last' = "conn_writecb"
    /\ UNCHANGED <<mainVars, loopVars, connVars>>

\* conn_writecb(bev): reports, changes nothing
conn_writecb(c) ==
    /\ pending = [kind |-> "write", c |-> c, events |-> {}]
    /\ pending' = NoCallback
    /\ said' = IF Len(outbuf[c]) = 0 THEN {"Answered"} ELSE {}
    /\ last' = "conn_writecb"
    /\ UNCHANGED <<mainVars, loopVars, connVars>>

\* a conn_readcb that keeps one output evbuffer for all connections, the
\* one of the first connection
conn_readcb_shared(c) ==
    /\ pending = [kind |-> "read", c |-> c, events |-> {}]
    /\ LET r == ReadLoop(inbuf[c], outbuf[1]) IN
        /\ inbuf' = [inbuf EXCEPT ![c] = r.in]
        /\ outbuf' = [outbuf EXCEPT ![1] = r.out]
    /\ pending' = NoCallback
    /\ said' = {"Received"}
    /\ last' = "conn_readcb"
    /\ UNCHANGED <<mainVars, loopVars, nconn, st, fdOpen, fd, freed, sockin,
                   clientEnd, rcvd, delivered>>

\* conn_readcb(bev): moves the input evbuffer to the output evbuffer
conn_readcb(c) ==
    /\ pending = [kind |-> "read", c |-> c, events |-> {}]
    /\ LET r == ReadLoop(inbuf[c], outbuf[c]) IN
        /\ inbuf' = [inbuf EXCEPT ![c] = r.in]
        /\ outbuf' = [outbuf EXCEPT ![c] = r.out]
    /\ pending' = NoCallback
    /\ said' = {"Received"}
    /\ last' = "conn_readcb"
    /\ UNCHANGED <<mainVars, loopVars, nconn, st, fdOpen, fd, freed, sockin,
                   clientEnd, rcvd, delivered>>

\* a conn_eventcb that also stops the loop, as listener_cb does on its error
conn_eventcb_break(c, events) ==
    /\ pending = [kind |-> "event", c |-> c, events |-> events]
    /\ said' = EventLines(events)
    /\ bufferevent_free(c)
    /\ exitCause' = "loopbreak"
    /\ pending' = NoCallback
    /\ last' = "conn_eventcb"
    /\ UNCHANGED <<mainVars, loop, timers, elapsed, nconn, sockin, clientEnd,
                   rcvd, delivered>>

\* a conn_eventcb that frees the bufferevent on end-of-file only and
\* returns on an error
conn_eventcb_eofonly(c, events) ==
    /\ pending = [kind |-> "event", c |-> c, events |-> events]
    /\ said' = EventLines(events)
    /\ IF BEV_EVENT_EOF \in events
       THEN bufferevent_free(c)
       ELSE UNCHANGED <<st, inbuf, outbuf, fdOpen, fd, freed>>
    /\ pending' = NoCallback
    /\ last' = "conn_eventcb"
    /\ UNCHANGED <<mainVars, loopVars, nconn, sockin, clientEnd, rcvd,
                   delivered>>

\* a conn_eventcb that frees the bufferevent on end-of-file and on errors
\* and returns on any other mask
conn_eventcb_knownbits(c, events) ==
    /\ pending = [kind |-> "event", c |-> c, events |-> events]
    /\ said' = EventLines(events)
    /\ IF events \cap {BEV_EVENT_EOF, BEV_EVENT_ERROR} # {}
       THEN bufferevent_free(c)
       ELSE UNCHANGED <<st, inbuf, outbuf, fdOpen, fd, freed>>
    /\ pending' = NoCallback
    /\ last' = "conn_eventcb"
    /\ UNCHANGED <<mainVars, loopVars, nconn, sockin, clientEnd, rcvd,
                   delivered>>

\* a conn_eventcb that frees the bufferevent in its end-of-file branch and
\* again at its end
conn_eventcb_twice(c, events) ==
    /\ pending = [kind |-> "event", c |-> c, events |-> events]
    /\ said' = EventLines(events)
    /\ st' = [st EXCEPT ![c] = "CLOSED"]
    /\ inbuf' = [inbuf EXCEPT ![c] = <<>>]
    /\ outbuf' = [outbuf EXCEPT ![c] = <<>>]
    /\ fdOpen' = [fdOpen EXCEPT ![c] = FALSE]
    /\ fd' = [fd EXCEPT ![c] = 0]
    /\ freed' = [freed EXCEPT
                   ![c] = @ + (IF BEV_EVENT_EOF \in events THEN 2 ELSE 1)]
    /\ pending' = NoCallback
    /\ last' = "conn_eventcb"
    /\ UNCHANGED <<mainVars, loopVars, nconn, sockin, clientEnd, rcvd,
                   delivered>>

\* conn_eventcb(bev, events): one line per bit, then bufferevent_free(bev)
conn_eventcb(c, events) ==
    /\ pending = [kind |-> "event", c |-> c, events |-> events]
    /\ said' = EventLines(events)
    /\ bufferevent_free(c)
    /\ pending' = NoCallback
    /\ last' = "conn_eventcb"
    /\ UNCHANGED <<mainVars, loopVars, nconn, sockin, clientEnd, rcvd,
                   delivered>>

\* a signal_cb that prints and does not call event_base_loopexit
signal_cb_noexit ==
    /\ Idle
    /\ sigev = "live"
    /\ elapsed' = IF elapsed = -1 THEN 0 ELSE elapsed
    /\ said' = {"Caught an interrupt signal"}
    /\ last' = "signal_cb"
    /\ UNCHANGED <<mainVars, loop, exitCause, timers, connVars, pending>>

\* a signal_cb that calls event_base_loopexit(base, NULL): no delay
signal_cb_now ==
    /\ Idle
    /\ sigev = "live"
    /\ timers' = timers \cup {0}
    /\ elapsed' = IF elapsed = -1 THEN 0 ELSE elapsed
    /\ said' = {"Caught an interrupt signal"}
    /\ last' = "signal_cb"
    /\ UNCHANGED <<mainVars, loop, exitCause, connVars, pending>>

\* a signal_cb whose exit timer is one re-armed timer: every interrupt
\* restarts the delay
signal_cb_rearm ==
    /\ Idle
    /\ sigev = "live"
    /\ timers' = {GRACE}
    /\ elapsed' = IF elapsed = -1 THEN 0 ELSE elapsed
    /\ said' = {"Caught an interrupt signal"}
    /\ last' = "signal_cb"
    /\ UNCHANGED <<mainVars, loop, exitCause, connVars, pending>>

\* signal_cb: SIGINT is delivered and the loop runs the callback, which is
\* event_base_loopexit(base, &delay): one more one-shot timer of GRACE
signal_cb ==
    /\ Idle
    /\ sigev = "live"
    /\ timers' = timers \cup {GRACE}
    /\ elapsed' = IF elapsed = -1 THEN 0 ELSE elapsed
    /\ said' = {"Caught an interrupt signal"}
    /\ last' = "signal_cb"
    /\ UNCHANGED <<mainVars, loop, exitCause, connVars, pending>>

\* ------------------------------------------------ time and the exit timer

\* one time unit passes; a timer that is due fires before time moves on
Tick ==
    /\ Idle
    /\ timers # {}
    /\ 0 \notin timers
    /\ timers' = { t - 1 : t \in timers }
    /\ elapsed' = elapsed + 1
    /\ said' = {}
    /\ last' = "Tick"
    /\ UNCHANGED <<mainVars, loop, exitCause, connVars, pending>>

\* a loopexit timer is due: the loop is told to exit
TimerFire ==
    /\ Idle
    /\ 0 \in timers
    /\ timers' = timers \ {0}
    /\ exitCause' = "loopexit"
    /\ said' = {}
    /\ last' = "TimerFire"
    /\ UNCHANGED <<mainVars, loop, elapsed, connVars, pending>>

\* ----------------------------------------------------------- the clients

\* the bytes the client of connection c has sent, and how many bytes the
\* clients have sent together
Sent(c) == rcvd[c] \o sockin[c]
RECURSIVE SentUpTo(_)
SentUpTo(c) == IF c = 0 THEN 0 ELSE Len(Sent(c)) + SentUpTo(c - 1)
TotalSent == SentUpTo(MaxConns)

\* the client of connection c sends its next byte
ClientSend(c) ==
    /\ Idle
    /\ st[c] = "ACTIVE"
    /\ clientEnd[c] = "open"
    /\ TotalSent < MaxSend
    /\ sockin' = [sockin EXCEPT
                    ![c] = Append(@, Byte(c, Len(rcvd[c]) + Len(@) + 1))]
    /\ said' = {}
    /\ last' = "ClientSend"
    /\ UNCHANGED <<mainVars, loopVars, nconn, st, inbuf, outbuf, fdOpen, fd,
                   freed, clientEnd, rcvd, delivered, pending>>

\* the client ends its stream: "eof" shuts down its sending side and keeps
\* reading, "reset" aborts the connection
ClientEnd(c, how) ==
    /\ Idle
    /\ st[c] = "ACTIVE"
    /\ clientEnd[c] = "open"
    /\ clientEnd' = [clientEnd EXCEPT ![c] = how]
    /\ said' = {}
    /\ last' = "ClientEnd"
    /\ UNCHANGED <<mainVars, loopVars, nconn, st, inbuf, outbuf, fdOpen, fd,
                   freed, sockin, rcvd, delivered, pending>>

\* ---------------------------------------- the socket bufferevent's events

\* the socket is readable: k bytes are read into the input evbuffer and the
\* read callback is due
TransportRead(c, k) ==
    /\ Idle
    /\ st[c] = "ACTIVE"
    /\ clientEnd[c] # "reset"
    /\ k \in 1..Len(sockin[c])
    /\ inbuf' = [inbuf EXCEPT ![c] = @ \o SubSeq(sockin[c], 1, k)]
    /\ rcvd' = [rcvd EXCEPT ![c] = @ \o SubSeq(sockin[c], 1, k)]
    /\ sockin' = [sockin EXCEPT ![c] = SubSeq(@, k + 1, Len(@))]
    /\ pending' = [kind |-> "read", c |-> c, events |-> {}]
    /\ said' = {}
    /\ last' = "TransportRead"
    /\ UNCHANGED <<mainVars, loopVars, nconn, st, outbuf, fdOpen, fd, freed,
                   clientEnd, delivered>>

\* the read returns 0 (the client has shut down and all it sent was read) or
\* fails (the connection was reset): the event callback is due
TransportReadEnd(c) ==
    /\ Idle
    /\ st[c] = "ACTIVE"
    /\ \/ /\ clientEnd[c] = "eof"
          /\ sockin[c] = <<>>
          /\ pending' = [kind |-> "event", c |-> c,
                         events |-> {BEV_EVENT_READING, BEV_EVENT_EOF}]
       \/ /\ clientEnd[c] = "reset"
          /\ pending' = [kind |-> "event", c |-> c,
                         events |-> {BEV_EVENT_READING, BEV_EVENT_ERROR}]
    /\ said' = {}
    /\ last' = "TransportReadEnd"
    /\ UNCHANGED <<mainVars, loopVars, connVars>>

\* the socket is writable and the output evbuffer holds data: k bytes of it
\* are written (the socket may take fewer than it holds); an emptied output
\* evbuffer makes the write callback due (the low watermark is 0)
TransportWrite(c, k) ==
    /\ Idle
    /\ st[c] = "ACTIVE"
    /\ clientEnd[c] # "reset"
    /\ k \in 1..Len(outbuf[c])
    /\ delivered' = [delivered EXCEPT ![c] = @ \o SubSeq(outbuf[c], 1, k)]
    /\ outbuf' = [outbuf EXCEPT ![c] = SubSeq(@, k + 1, Len(@))]
    /\ pending' = IF k = Len(outbuf[c])
                  THEN [kind |-> "write", c |-> c, events |-> {}]
                  ELSE NoCallback
    /\ said' = {}
    /\ last' = "TransportWrite"
    /\ UNCHANGED <<mainVars, loopVars, nconn, st, inbuf, fdOpen, fd, freed,
                   sockin, clientEnd, rcvd>>

\* the write fails on a reset connection: the event callback is due
TransportWriteError(c) ==
    /\ Idle
    /\ st[c] = "ACTIVE"
    /\ outbuf[c] # <<>>
    /\ clientEnd[c] = "reset"
    /\ pending' = [kind |-> "event", c |-> c,
                   events |-> {BEV_EVENT_WRITING, BEV_EVENT_ERROR}]
    /\ said' = {}
    /\ last' = "TransportWriteError"
    /\ UNCHANGED <<mainVars, loopVars, connVars>>

\* ------------------------------------------------------ the specification

Next ==
    \/ \E ok \in BOOLEAN : EventBaseNew(ok)
    \/ \E ok \in BOOLEAN : ListenerNewBind(ok)
    \/ \E outcome \in {"live", "null", "notadded"} : SignalNew(outcome)
    \/ DispatchEnter
    \/ DispatchReturn
    \/ EvconnlistenerFree
    \/ EventFree
    \/ EventBaseFree
    \/ PrintDone
    \/ \E ok \in BOOLEAN : listener_cb(ok)
    \/ \E c \in Conns : conn_writecb(c)
    \/ \E c \in Conns : conn_readcb(c)
    \/ \E c \in Conns, events \in DeliveredMasks : conn_eventcb(c, events)
    \/ signal_cb
    \/ Tick
    \/ TimerFire
    \/ \E c \in Conns : ClientSend(c)
    \/ \E c \in Conns, how \in {"eof", "reset"} : ClientEnd(c, how)
    \/ \E c \in Conns, k \in 1..MaxSend : TransportRead(c, k)
    \/ \E c \in Conns : TransportReadEnd(c)
    \/ \E c \in Conns, k \in 1..MaxSend : TransportWrite(c, k)
    \/ \E c \in Conns : TransportWriteError(c)

Spec == Init /\ [][Next]_vars

\* ------------------------------------- the callbacks tried on their own

AllEventBits ==
    {BEV_EVENT_READING, BEV_EVENT_WRITING, BEV_EVENT_EOF, BEV_EVENT_ERROR,
     BEV_EVENT_TIMEOUT, BEV_EVENT_CONNECTED}

\* the first n bytes of the stream of client c
Stream(c, n) == [k \in 1..n |-> Byte(c, k)]

\* one ACTIVE connection inside the running loop: its output evbuffer holds
\* o bytes read earlier (bytes Byte(0, k)) and its input evbuffer i bytes
\* read after them (bytes Byte(1, k)); nothing was written back yet
CallbackInit ==
    /\ pc = "dispatch"
    /\ status = -1
    /\ doneCount = 0
    /\ base = "live"
    /\ listener = "live"
    /\ sigev = "live"
    /\ loop = "running"
    /\ exitCause = "none"
    /\ timers = {}
    /\ elapsed = -1
    /\ nconn = 1
    /\ st = [c \in Conns |-> IF c = 1 THEN "ACTIVE" ELSE "NONE"]
    /\ \E o \in 0..MaxLen, i \in 0..MaxLen :
          /\ outbuf = [c \in Conns |-> IF c = 1 THEN Stream(0, o) ELSE <<>>]
          /\ inbuf = [c \in Conns |-> IF c = 1 THEN Stream(1, i) ELSE <<>>]
          /\ rcvd = [c \in Conns |->
                       IF c = 1 THEN Stream(0, o) \o Stream(1, i) ELSE <<>>]
    /\ fdOpen = [c \in Conns |-> c = 1]
    /\ fd = [c \in Conns |-> IF c = 1 THEN 1 ELSE 0]
    /\ freed = [c \in Conns |-> 0]
    /\ sockin = [c \in Conns |-> <<>>]
    /\ clientEnd = [c \in Conns |-> "open"]
    /\ delivered = [c \in Conns |-> <<>>]
    /\ pending = NoCallback
    /\ said = {}
    /\ last = "start"

\* the loop makes a callback of connection c due: the read callback, the
\* write callback, or the event callback with any mask
Deliver(c, kind, events) ==
    /\ Idle
    /\ st[c] = "ACTIVE"
    /\ kind \in {"read", "write", "event"}
    /\ kind # "event" => events = {}
    /\ pending' = [kind |-> kind, c |-> c, events |-> events]
    /\ said' = {}
    /\ last' = "Deliver"
    /\ UNCHANGED <<mainVars, loopVars, connVars>>

CallbackNext ==
    \/ \E c \in Conns, kind \in {"read", "write", "event"},
          events \in SUBSET AllEventBits : Deliver(c, kind, events)
    \/ \E c \in Conns : conn_writecb(c)
    \/ \E c \in Conns : conn_readcb(c)
    \/ \E c \in Conns, events \in SUBSET AllEventBits :
           conn_eventcb(c, events)

CallbackSpec == CallbackInit /\ [][CallbackNext]_vars

\* ------------------------------- the read loop of conn_readcb, by steps

\* a value stored in a size_t
ToSizeT(n) == n % (2 ^ SizeBits)

\* the bytes of rcvd[c] that arrived while conn_readcb was running or were
\* in the input evbuffer at the start
NewBytes(c) == SelectSeq(rcvd[c], LAMBDA b : b >= Byte(1, 1))

\* what a call evbuffer_remove_buffer(in, out, inputs) may do by its
\* signature: move all inputs bytes, move fewer, move none, or fail with -1
Outcomes == {"all", "fewer", "zero", "fail"}

\* size_t inputs = evbuffer_get_length(evbuf_in);
conn_readcb_length(c) ==
    /\ pending = [kind |-> "read", c |-> c, events |-> {}]
    /\ pending' = [kind |-> "read_remove", c |-> c, events |-> {},
                   inputs |-> ToSizeT(Len(inbuf[c]))]
    /\ said' = {}
    /\ last' = "conn_readcb_length"
    /\ UNCHANGED <<mainVars, loopVars, connVars>>

\* size_t writes = evbuffer_remove_buffer(evbuf_in, evbuf_out, inputs);
\* moved is the number of bytes the call moves, the int it returns is
\* converted to size_t
conn_readcb_remove(c, outcome, moved) ==
    /\ pending.kind = "read_remove"
    /\ pending.c = c
    /\ moved \in 0..pending.inputs
    /\ CASE outcome = "all" -> moved = pending.inputs
         [] outcome = "fewer" -> 0 < moved /\ moved < pending.inputs
         [] outcome = "zero" -> moved = 0
         [] outcome = "fail" -> moved = 0
    /\ LET r == evbuffer_remove_buffer(inbuf[c], outbuf[c], moved) IN
        /\ inbuf' = [inbuf EXCEPT ![c] = r.src]
        /\ outbuf' = [outbuf EXCEPT ![c] = r.dst]
        /\ pending' = [kind |-> "read_test", c |-> c, events |-> {},
                       inputs |-> pending.inputs,
                       writes |-> IF outcome = "fail" THEN ToSizeT(-1)
                                  ELSE ToSizeT(r.ret)]
    /\ said' = {}
    /\ last' = outcome
    /\ UNCHANGED <<mainVars, loopVars, nconn, st, fdOpen, fd, freed, sockin,
                   clientEnd, rcvd, delivered>>

\* if (inputs <= writes) break; and after the loop printf("Received\n")
conn_readcb_test(c) ==
    /\ pending.kind = "read_test"
    /\ pending.c = c
    /\ IF pending.inputs <= pending.writes
       THEN /\ pending' = NoCallback
            /\ said' = {"Received"}
            /\ last' = "conn_readcb"
       ELSE /\ pending' = [kind |-> "read", c |-> c, events |-> {}]
            /\ said' = {}
            /\ last' = "conn_readcb_again"
    /\ UNCHANGED <<mainVars, loopVars, connVars>>

\* a byte is appended to the input evbuffer while conn_readcb is running
Arrive(c) ==
    /\ pending.kind \in {"read", "read_remove", "read_test"}
    /\ pending.c = c
    /\ Len(NewBytes(c)) < MaxLen
    /\ LET b == Byte(1, Len(NewBytes(c)) + 1) IN
        /\ inbuf' = [inbuf EXCEPT ![c] = Append(@, b)]
        /\ rcvd' = [rcvd EXCEPT ![c] = Append(@, b)]
    /\ said' = {}
    /\ last' = "Arrive"
    /\ UNCHANGED <<mainVars, loopVars, nconn, st, outbuf, fdOpen, fd, freed,
                   sockin, clientEnd, delivered, pending>>

DrainNext ==
    \/ \E c \in Conns : Deliver(c, "read", {})
    \/ \E c \in Conns : conn_readcb_length(c)
    \/ \E c \in Conns, outcome \in Outcomes, moved \in 0..MaxLen :
           conn_readcb_remove(c, outcome, moved)
    \/ \E c \in Conns : conn_readcb_test(c)
    \/ \E c \in Conns : Arrive(c)

DrainSpec == CallbackInit /\ [][DrainNext]_vars

\* conn_readcb runs to its return once it is called: each statement of the
\* loop is executed, whatever evbuffer_remove_buffer does
DrainFairSpec ==
    /\ DrainSpec
    /\ \A c \in Conns :
          /\ WF_vars(conn_readcb_length(c))
          /\ WF_vars(\E outcome \in Outcomes, moved \in 0..MaxLen :
                        conn_readcb_remove(c, outcome, moved))
          /\ WF_vars(conn_readcb_test(c))

\* the loop runs the callback that is due, time passes while a timer is
\* pending, a due timer fires, and main goes on after event_base_dispatch
FairSpec ==
    /\ Spec
    /\ WF_vars(DispatchEnter)
    /\ WF_vars(\E c \in Conns : conn_writecb(c))
    /\ WF_vars(\E c \in Conns : conn_readcb(c))
    /\ WF_vars(\E c \in Conns, events \in DeliveredMasks :
                 conn_eventcb(c, events))
    /\ WF_vars(Tick)
    /\ WF_vars(TimerFire)
    /\ WF_vars(DispatchReturn)
    /\ WF_vars(EvconnlistenerFree)
    /\ WF_vars(EventFree)
    /\ WF_vars(EventBaseFree)
    /\ WF_vars(PrintDone)

\* ---------------------------------------------------------------- claims

Range(s) == { s[i] : i \in 1..Len(s) }
IsPrefix(s, t) == Len(s) <= Len(t) /\ SubSeq(t, 1, Len(s)) = s

\* the callback of the given kind that is due for connection c runs in
\* this step
CallbackRuns(kind, c) ==
    /\ pending.kind = kind
    /\ pending.c = c
    /\ pending' = NoCallback

TerminatingBits ==
    {BEV_EVENT_READING, BEV_EVENT_WRITING, BEV_EVENT_EOF, BEV_EVENT_ERROR}

\* C1: echo correctness, in the form a finite run decides.  A CLOSED
\* connection is never written to again, so the claim requires that a
\* connection the server closed on the client's end-of-stream (the client
\* shut down its sending side after its last byte and kept reading) has
\* delivered every byte the client sent, in order.
C1_EchoCompleteAtEof ==
    \A c \in Conns :
        (st[c] = "CLOSED" /\ clientEnd[c] = "eof") => delivered[c] = Sent(c)

\* C2: order-preserving relay.  For every ACTIVE connection the bytes
\* delivered, then the output evbuffer, then the input evbuffer are exactly
\* the bytes read from the client so far; for every connection the bytes
\* delivered are a prefix of the bytes read.
C2_OrderPreservingRelay ==
    \A c \in Conns :
        /\ st[c] = "ACTIVE" =>
               delivered[c] \o outbuf[c] \o inbuf[c] = rcvd[c]
        /\ IsPrefix(delivered[c], rcvd[c])

C2_Witness ==
    \E c \in Conns :
        /\ st[c] = "ACTIVE"
        /\ Len(delivered[c]) = 1
        /\ Len(inbuf[c]) = 1

\* C3: independence.  The buffers and the delivered bytes of a connection
\* hold only bytes its own client sent, never a byte another client sent.
C3_Independence ==
    \A c \in Conns :
        /\ Range(inbuf[c]) \cup Range(outbuf[c]) \cup Range(delivered[c])
               \subseteq Range(Sent(c))
        /\ \A d \in Conns \ {c} :
               (Range(inbuf[c]) \cup Range(outbuf[c]) \cup Range(delivered[c]))
                   \cap Range(Sent(d)) = {}

C3_Witness ==
    /\ st[1] = "ACTIVE"
    /\ st[2] = "ACTIVE"
    /\ delivered[1] # <<>>
    /\ outbuf[2] # <<>>

\* C4: fault isolation.  The step in which conn_eventcb closes connection a
\* changes neither the state, the buffers, the socket nor the byte streams
\* of any other connection, nor the listener, nor the loop; and while the
\* loop runs, an ACTIVE connection beside a CLOSED one can have its pending
\* bytes read and its output written.
C4_FaultIsolation ==
    /\ [][\A a \in Conns :
            CallbackRuns("event", a) =>
                /\ \A b \in Conns \ {a} :
                       /\ st'[b] = st[b]
                       /\ inbuf'[b] = inbuf[b]
                       /\ outbuf'[b] = outbuf[b]
                       /\ fdOpen'[b] = fdOpen[b]
                       /\ freed'[b] = freed[b]
                       /\ sockin'[b] = sockin[b]
                       /\ rcvd'[b] = rcvd[b]
                       /\ delivered'[b] = delivered[b]
                /\ UNCHANGED <<listener, loop, exitCause, pc, timers, nconn>>
         ]_vars
    /\ [](\A a \in Conns, b \in Conns :
            (Idle /\ st[a] = "CLOSED" /\ st[b] = "ACTIVE"
                  /\ clientEnd[b] # "reset") =>
                /\ sockin[b] # <<>> => ENABLED TransportRead(b, 1)
                /\ outbuf[b] # <<>> => ENABLED TransportWrite(b, 1))

\* connection b was flushed after connection a was closed
C4_Witness ==
    \E a \in Conns, b \in Conns :
        /\ st[a] = "CLOSED"
        /\ st[b] = "ACTIVE"
        /\ pending = [kind |-> "write", c |-> b, events |-> {}]
        /\ delivered[b] # <<>>

\* C5: per-connection fatal events.  When conn_eventcb runs for an ACTIVE
\* connection with a mask holding a read-error, write-error, end-of-file or
\* error bit, the connection is CLOSED after that step, its evbuffers are
\* gone and its socket is closed, by one call of bufferevent_free; and the
\* event callback that is due is the only thing the loop can run.
C5_FatalEventCloses ==
    /\ [][\A c \in Conns :
            (/\ CallbackRuns("event", c)
             /\ st[c] = "ACTIVE"
             /\ pending.events \cap TerminatingBits # {}) =>
                /\ st'[c] = "CLOSED"
                /\ inbuf'[c] = <<>>
                /\ outbuf'[c] = <<>>
                /\ ~fdOpen'[c]
                /\ freed'[c] = freed[c] + 1
         ]_vars
    /\ [][pending.kind = "event" => pending' = NoCallback]_vars

\* a connection closed on an error while it still held bytes to write
C5_Witness ==
    \E c \in Conns :
        /\ st[c] = "CLOSED"
        /\ last = "conn_eventcb"
        /\ BEV_EVENT_ERROR \in said
        /\ delivered[c] # rcvd[c]

\* C6: CLOSED is terminal.  A connection only goes from not accepted to
\* ACTIVE and from ACTIVE to CLOSED, bufferevent_free is called at most once
\* for it, and every callback that is due or runs is for an ACTIVE
\* connection that was never freed.
C6_ClosedIsTerminal ==
    /\ [][\A c \in Conns :
            /\ st[c] = "CLOSED" => st'[c] = "CLOSED"
            /\ st'[c] # st[c] =>
                   \/ st[c] = "NONE" /\ st'[c] = "ACTIVE"
                   \/ st[c] = "ACTIVE" /\ st'[c] = "CLOSED"
            /\ freed'[c] <= 1
            /\ (\E kind \in {"read", "write", "event"} :
                    CallbackRuns(kind, c)) =>
                   st[c] = "ACTIVE" /\ freed[c] = 0
         ]_vars
    /\ [](\A c \in Conns :
            /\ st[c] = "CLOSED" <=> freed[c] = 1
            /\ pending.c = c => st[c] = "ACTIVE")

\* a released connection whose client still has unread bytes in the socket:
\* no read is made for it
C6_Witness ==
    \E c \in Conns :
        /\ st[c] = "CLOSED"
        /\ freed[c] = 1
        /\ sockin[c] # <<>>
        /\ Idle

\* C7: shutdown liveness.  After an interrupt was delivered, the process
\* ends with the loop exited, status 0 and "done" printed once; "done" is
\* never printed twice.
C7_ShutdownLiveness ==
    /\ (elapsed >= 0) ~>
           (pc = "exit" /\ loop = "exited" /\ status = 0 /\ doneCount = 1)
    /\ [](doneCount <= 1)

\* the process ended after the grace period with a connection still open
C7_Witness ==
    /\ pc = "exit"
    /\ status = 0
    /\ doneCount = 1
    /\ exitCause = "loopexit"
    /\ elapsed = GRACE
    /\ \E c \in Conns : st[c] = "ACTIVE"

\* C8: cooperative shutdown.  The step of signal_cb changes no connection
\* and leaves the loop running; the loop is not left by a loopexit before
\* the grace period is over; and while it runs after an interrupt, the
\* listener still accepts and the connections are still read and written.
C8_CooperativeShutdown ==
    /\ [][last' = "signal_cb" =>
            UNCHANGED <<nconn, st, inbuf, outbuf, fdOpen, freed, sockin,
                        clientEnd, rcvd, delivered, pc, loop, exitCause,
                        listener>>
         ]_vars
    /\ [](/\ exitCause = "loopexit" => elapsed >= GRACE
          /\ (elapsed >= 0 /\ exitCause = "none") =>
                 (pc = "dispatch" /\ loop = "running"))
    /\ [](Idle /\ elapsed >= 0 =>
            /\ nconn < MaxConns => ENABLED listener_cb(TRUE)
            /\ \A c \in Conns :
                   (st[c] = "ACTIVE" /\ clientEnd[c] # "reset") =>
                       /\ sockin[c] # <<>> => ENABLED TransportRead(c, 1)
                       /\ outbuf[c] # <<>> => ENABLED TransportWrite(c, 1))

\* a second connection was accepted one time unit after the interrupt,
\* beside a connection that has been echoed to
C8_Witness ==
    /\ last = "listener_cb"
    /\ elapsed = 1
    /\ loop = "running"
    /\ nconn = 2
    /\ st[2] = "ACTIVE"
    /\ st[1] = "ACTIVE"
    /\ delivered[1] # <<>>

\* C9: further interrupts do not move the exit.  Time since the first
\* interrupt never passes GRACE inside the loop, a loopexit happens at
\* exactly GRACE after the first interrupt, and at that time a timer is due.
C9_ExitAtFirstDeadline ==
    /\ elapsed <= GRACE
    /\ exitCause = "loopexit" => elapsed = GRACE
    /\ (Idle /\ elapsed = GRACE) => 0 \in timers

\* the loop has exited while the timer of an interrupt delivered one time
\* unit after the first was still pending
C9_Witness ==
    /\ loop = "exited"
    /\ exitCause = "loopexit"
    /\ elapsed = GRACE
    /\ 1 \in timers

\* C10: startup failure path.  When the event base, the listener or the
\* signal event could not be set up, the process has exited with status 1,
\* the loop was never run, no socket was accepted and "done" was not
\* printed.
C10_StartupFailure ==
    (base = "null" \/ listener = "null" \/ sigev \in {"null", "notadded"}) =>
        /\ pc = "exit"
        /\ status = 1
        /\ loop = "notrun"
        /\ nconn = 0
        /\ \A c \in Conns : st[c] = "NONE" /\ ~fdOpen[c]
        /\ doneCount = 0

\* the port was taken: the listener could not be made
C10_Witness ==
    /\ listener = "null"
    /\ pc = "exit"
    /\ status = 1

\* the socket whose bufferevent could not be made
FailedAccept(c) == fdOpen[c] /\ st[c] = "NONE"

\* C11: accept-construction failure is fatal to the server.  The step of
\* listener_cb that reports the failure asks the loop to stop and makes no
\* connection for the socket; once the loop is asked to stop, its next step
\* is the return of event_base_dispatch, with no event handled in between;
\* and the loop never runs on past a failed accept.
C11_AcceptFailureFatal ==
    /\ [][(last' = "listener_cb"
             /\ "Error constructing bufferevent!" \in said') =>
            /\ exitCause' = "loopbreak"
            /\ nconn' = nconn + 1
            /\ st' = st
            /\ UNCHANGED <<inbuf, outbuf, freed, rcvd, delivered>>
         ]_vars
    /\ [][(exitCause = "loopbreak" /\ loop = "running") =>
            (last' = "DispatchReturn" /\ loop' = "exited")
         ]_vars
    /\ [](\A c \in Conns :
            FailedAccept(c) => (exitCause = "loopbreak" /\ ~Idle))

\* the loop was broken by a failed accept while the first connection still
\* had unread bytes in its socket
C11_Witness ==
    /\ loop = "exited"
    /\ exitCause = "loopbreak"
    /\ FailedAccept(2)
    /\ st[1] = "ACTIVE"
    /\ sockin[1] # <<>>

\* C12: accept creates one independent ACTIVE connection.  The step of
\* listener_cb that makes a bufferevent adds exactly one connection, ACTIVE,
\* with empty evbuffers, on the socket it was handed, and changes no other
\* connection; its reads, writes and events are then taken by the loop; no
\* two open sockets of the server have the same descriptor; and the
\* listener accepts whatever the number of open connections.
C12_AcceptCreatesConnection ==
    /\ [][(last' = "listener_cb"
             /\ "Error constructing bufferevent!" \notin said') =>
            /\ nconn' = nconn + 1
            /\ st[nconn'] = "NONE"
            /\ st'[nconn'] = "ACTIVE"
            /\ inbuf'[nconn'] = <<>>
            /\ outbuf'[nconn'] = <<>>
            /\ fdOpen'[nconn']
            /\ freed'[nconn'] = 0
            /\ \A d \in Conns \ {nconn'} :
                   /\ st'[d] = st[d]
                   /\ inbuf'[d] = inbuf[d]
                   /\ outbuf'[d] = outbuf[d]
                   /\ fdOpen'[d] = fdOpen[d]
                   /\ fd'[d] = fd[d]
                   /\ freed'[d] = freed[d]
                   /\ rcvd'[d] = rcvd[d]
                   /\ delivered'[d] = delivered[d]
         ]_vars
    /\ [](\A c \in Conns, d \in Conns :
            (c # d /\ fdOpen[c] /\ fdOpen[d]) => fd[c] # fd[d])
    /\ [](\A c \in Conns : st[c] = "ACTIVE" => (fdOpen[c] /\ fd[c] # 0))
    /\ [](Idle =>
            /\ nconn < MaxConns => ENABLED listener_cb(TRUE)
            /\ \A c \in Conns :
                   (st[c] = "ACTIVE" /\ clientEnd[c] # "reset") =>
                       /\ sockin[c] # <<>> => ENABLED TransportRead(c, 1)
                       /\ outbuf[c] # <<>> => ENABLED TransportWrite(c, 1)
                       /\ (clientEnd[c] = "eof" /\ sockin[c] = <<>>) =>
                              ENABLED TransportReadEnd(c))

\* a second connection was accepted beside a first that holds bytes to
\* write, on a descriptor of its own
C12_Witness ==
    /\ last = "listener_cb"
    /\ nconn = 2
    /\ st[1] = "ACTIVE"
    /\ st[2] = "ACTIVE"
    /\ outbuf[1] # <<>>
    /\ fd[1] = 1
    /\ fd[2] = 2

\* C13: teardown ordering.  The listener, the signal event and the event
\* base are freed in that order, each by one step that finds it live, only
\* after the loop has exited, and "done" is printed only after all three
\* are freed.
C13_TeardownOrder ==
    /\ [](/\ listener = "freed" => loop = "exited"
          /\ sigev = "freed" => listener = "freed"
          /\ base = "freed" => sigev = "freed"
          /\ doneCount > 0 =>
                 (listener = "freed" /\ sigev = "freed" /\ base = "freed")
          /\ (pc = "exit" /\ status = 0) => doneCount = 1)
    /\ [][/\ last' = "EvconnlistenerFree" =>
                (listener = "live" /\ listener' = "freed")
          /\ last' = "EventFree" => (sigev = "live" /\ sigev' = "freed")
          /\ last' = "EventBaseFree" => (base = "live" /\ base' = "freed")
          /\ listener = "freed" => listener' = "freed"
          /\ sigev = "freed" => sigev' = "freed"
          /\ base = "freed" => base' = "freed"
         ]_vars

\* the process ended after a clean teardown
C13_Witness ==
    /\ pc = "exit"
    /\ status = 0
    /\ doneCount = 1
    /\ listener = "freed"
    /\ sigev = "freed"
    /\ base = "freed"

\* C14: the loop exits only through the shutdown controller or a failed
\* accept.  A loop that was entered and has neither seen an interrupt nor a
\* failed accept is still running; an exit by loopexit follows an
\* interrupt, an exit by loopbreak follows a failed accept.
C14_LoopExitCauses ==
    /\ (loop # "notrun" /\ elapsed = -1
          /\ \A c \in Conns : ~FailedAccept(c)) =>
           (loop = "running" /\ pc = "dispatch" /\ exitCause = "none")
    /\ loop = "exited" => exitCause \in {"loopexit", "loopbreak"}
    /\ exitCause = "loopexit" => elapsed >= 0
    /\ exitCause = "loopbreak" => \E c \in Conns : FailedAccept(c)

\* the loop is running with every accepted connection closed again
C14_Witness ==
    /\ Idle
    /\ elapsed = -1
    /\ nconn = MaxConns
    /\ \A c \in Conns : st[c] = "CLOSED"

\* C20: no connection outlives the server.  When main has returned after
\* the loop exited, every accepted socket is closed and every connection is
\* CLOSED.
C20_NoConnectionOutlivesServer ==
    (pc = "exit" /\ loop = "exited") =>
        \A c \in 1..nconn : st[c] = "CLOSED" /\ ~fdOpen[c]

\* C15: drain postcondition of on-readable.  When conn_readcb has run for
\* an ACTIVE connection, its input evbuffer is empty and its output
\* evbuffer is what it held, unchanged, followed by what the input evbuffer
\* held, in the same order.
C15_DrainPostcondition ==
    [][\A c \in Conns :
         (CallbackRuns("read", c) /\ st[c] = "ACTIVE") =>
             /\ inbuf'[c] = <<>>
             /\ outbuf'[c] = outbuf[c] \o inbuf[c]
             /\ st'[c] = "ACTIVE"
      ]_vars

\* conn_readcb has put two new bytes behind the two the output evbuffer held
C15_Witness ==
    /\ last = "conn_readcb"
    /\ inbuf[1] = <<>>
    /\ outbuf[1] = <<Byte(0, 1), Byte(0, 2), Byte(1, 1), Byte(1, 2)>>

\* C17: idempotent drain.  conn_readcb on an empty input evbuffer changes
\* neither evbuffer nor the connection's state; and conn_readcb always
\* leaves the input evbuffer empty, so a second run right after the first
\* is such a run.
C17_IdempotentDrain ==
    /\ [][\A c \in Conns :
            (CallbackRuns("read", c) /\ inbuf[c] = <<>>) =>
                UNCHANGED <<inbuf, outbuf, st, fdOpen, freed, rcvd,
                            delivered>>
         ]_vars
    /\ [](last = "conn_readcb" => \A c \in Conns : inbuf[c] = <<>>)

\* conn_readcb has run on an empty input evbuffer beside a non-empty
\* output evbuffer
C17_Witness ==
    /\ last = "conn_readcb"
    /\ rcvd[1] = <<Byte(0, 1)>>
    /\ outbuf[1] = <<Byte(0, 1)>>
    /\ inbuf[1] = <<>>

\* C18: on-writable is notification-only.  conn_writecb changes neither
\* evbuffer nor the state of the connection, and prints "Answered" exactly
\* when the output evbuffer is empty.
C18_WritecbNotifiesOnly ==
    [][\A c \in Conns :
         CallbackRuns("write", c) =>
             /\ UNCHANGED <<inbuf, outbuf, st, fdOpen, freed, rcvd,
                            delivered>>
             /\ ("Answered" \in said') <=> (Len(outbuf[c]) = 0)
      ]_vars

\* conn_writecb has run on a non-empty output evbuffer and printed nothing
C18_Witness ==
    /\ last = "conn_writecb"
    /\ said = {}
    /\ outbuf[1] # <<>>
    /\ st[1] = "ACTIVE"

\* C19: on-event closes for every mask.  conn_eventcb on an ACTIVE
\* connection frees the bufferevent whatever the mask, also a mask of only
\* timeout, only connected or no bit; what the output evbuffer held is
\* dropped, nothing of it is delivered.
C19_EventcbClosesForEveryMask ==
    [][\A c \in Conns :
         (CallbackRuns("event", c) /\ st[c] = "ACTIVE") =>
             /\ st'[c] = "CLOSED"
             /\ freed'[c] = freed[c] + 1
             /\ ~fdOpen'[c]
             /\ inbuf'[c] = <<>>
             /\ outbuf'[c] = <<>>
             /\ delivered'[c] = delivered[c]
      ]_vars

\* a mask of only the timeout bit has closed a connection that held bytes
\* to write
C19_Witness ==
    /\ last = "conn_eventcb"
    /\ said = {BEV_EVENT_TIMEOUT}
    /\ st[1] = "CLOSED"
    /\ delivered[1] # rcvd[1]

====
